---- MODULE Spec2Model ----
(***************************************************************************)
(* Knowledge Base Assistant backend: the /api/ask handler (backend/app.py) *)
(* and the context-budgeting pipeline of backend/llm.py.                   *)
(*                                                                         *)
(* A text (Python str) is a sequence of one-character strings; the only    *)
(* whitespace character used is " ".  None is the one-element sequence     *)
(* <<"<None>">>, which no text equals.                                     *)
(*                                                                         *)
(* The three word-count constants of llm.py are scaled down so that texts  *)
(* stay short: WORD_BUDGET 3500 -> 7, CHUNK_WORDS 400 -> 2,                *)
(* SUMMARY_TARGET 150 -> 1.  The scaling keeps the order relation of the   *)
(* shipped values, SUMMARY_TARGET < CHUNK_WORDS and                        *)
(* 2 * CHUNK_WORDS + 1 < WORD_BUDGET: an assembled body (two chunks and    *)
(* the "..." word) never exceeds the budget on its own.                    *)
(***************************************************************************)
EXTENDS Integers, Sequences, FiniteSets, TLC

\* ------------------------------------------------------------ constants
WORD_BUDGET == 7
CHUNK_WORDS == 2
SUMMARY_TARGET == 1
MAX_CTX_IDS == 16
QUESTION_MIN_LEN == 3
QUESTION_MAX_LEN == 1000

\* ------------------------------------------------------------ bounds
\* most rows / context ids / Contexts handed to one call
MaxRows == 3
\* longest text handed to chunk in ChunkSpec
MaxText == 6
\* largest max_words handed to chunk in ChunkSpec
MaxChunkArg == 3
\* most chunks handed to rank_chunks in RankSpec
MaxChunks == 3

\* ------------------------------------------------------------ texts
None == <<"<None>">>
Empty == <<>>

Min(S) == CHOOSE x \in S : \A y \in S : x <= y
Max(S) == CHOOSE x \in S : \A y \in S : x >= y

\* all sequences over S of length at most n
SeqsUpTo(S, n) == UNION {[1..k -> S] : k \in 0..n}

IsSpace(ch) == ch = " "

\* str.lower, character by character
LowerChar(ch) == IF ch = "A" THEN "a" ELSE IF ch = "B" THEN "b" ELSE ch
lower(s) == [i \in 1..Len(s) |-> LowerChar(s[i])]

\* str.strip(): drop leading and trailing whitespace
strip(s) ==
  LET keep == {i \in 1..Len(s) : ~IsSpace(s[i])}
  IN IF keep = {} THEN <<>> ELSE SubSeq(s, Min(keep), Max(keep))

\* length of the leading run of non-whitespace characters of s
WordLen(s) ==
  LET stops == {i \in 1..Len(s) : IsSpace(s[i])}
  IN IF stops = {} THEN Len(s) ELSE Min(stops) - 1

\* str.split(): the maximal runs of non-whitespace characters, in order
RECURSIVE split(_)
split(s) ==
  IF s = <<>> THEN <<>>
  ELSE IF IsSpace(Head(s)) THEN split(Tail(s))
  ELSE <<SubSeq(s, 1, WordLen(s))>> \o split(SubSeq(s, WordLen(s) + 1, Len(s)))

\* sep.join(parts)
RECURSIVE join(_, _)
join(sep, parts) ==
  IF parts = <<>> THEN <<>>
  ELSE IF Len(parts) = 1 THEN parts[1]
  ELSE parts[1] \o sep \o join(sep, Tail(parts))

\* `value or ""`
OrEmpty(v) == IF v = None THEN <<>> ELSE v

\* ------------------------------------------------------------ llm.py helpers
approx_words(text) == Len(split(text))

\* a mutant of chunk: the slices overlap by one word
chunk_overlap(text, max_words) ==
  LET words == split(text)
      n == (Len(words) + max_words - 1) \div max_words
  IN [k \in 1..n |->
        join(<<" ">>, SubSeq(words, (k - 1) * max_words + 1,
                              IF k * max_words + 1 < Len(words)
                              THEN k * max_words + 1 ELSE Len(words)))]

\* [" ".join(words[i:i+max_words]) for i in range(0, len(words), max_words)]
chunk(text, max_words) ==
  LET words == split(text)
      n == (Len(words) + max_words - 1) \div max_words
  IN [k \in 1..n |->
        join(<<" ">>, SubSeq(words, (k - 1) * max_words + 1,
                              IF k * max_words < Len(words)
                              THEN k * max_words ELSE Len(words)))]

\* q_terms = {w.lower() for w in q.split() if w}
q_terms(q) == {lower(split(q)[i]) : i \in 1..Len(split(q))}

\* score(c) = sum(1 for w in c.lower().split() if w in q_terms)
score(c, q) ==
  LET ws == split(lower(c))
  IN Cardinality({i \in 1..Len(ws) : ws[i] \in q_terms(q)})

\* a stable sort by score descending: each chunk goes after the chunks
\* already placed whose score is at least its own
RECURSIVE SortedDesc(_, _)
SortedDesc(chunks, q) ==
  IF chunks = <<>> THEN <<>>
  ELSE LET init == SortedDesc(SubSeq(chunks, 1, Len(chunks) - 1), q)
           x == chunks[Len(chunks)]
           pos == Cardinality({i \in 1..Len(init) : score(init[i], q) >= score(x, q)})
       IN SubSeq(init, 1, pos) \o <<x>> \o SubSeq(init, pos + 1, Len(init))

\* a mutant of the sort: a chunk goes before the chunks of equal score
RECURSIVE SortedDescUnstable(_, _)
SortedDescUnstable(chunks, q) ==
  IF chunks = <<>> THEN <<>>
  ELSE LET init == SortedDescUnstable(SubSeq(chunks, 1, Len(chunks) - 1), q)
           x == chunks[Len(chunks)]
           pos == Cardinality({i \in 1..Len(init) : score(init[i], q) > score(x, q)})
       IN SubSeq(init, 1, pos) \o <<x>> \o SubSeq(init, pos + 1, Len(init))

rank_chunks_unstable(chunks, q) == SortedDescUnstable(chunks, q)

\* sorted(chunks, key=score, reverse=True)
rank_chunks(chunks, q) == SortedDesc(chunks, q)


\* Context(title, body)
Context(title, body) == [title |-> title, body |-> body]

Ellipsis == <<" ", ".", ".", ".", " ">>

Take2(s) == SubSeq(s, 1, IF Len(s) < 2 THEN Len(s) ELSE 2)

\* a mutant of the row filter: only the title is tested
row_usable_title_only(row) == strip(OrEmpty(row.title)) # <<>>

\* `if not title or not content: continue`, negated
row_usable(row) ==
  strip(OrEmpty(row.title)) # <<>> /\ strip(OrEmpty(row.content)) # <<>>

\* the Context appended for one usable row
row_context(row, question) ==
  LET title == strip(OrEmpty(row.title))
      content == strip(OrEmpty(row.content))
      chunks == chunk(content, CHUNK_WORDS)
      top2 == Take2(rank_chunks(chunks, question))
  IN Context(title, join(Ellipsis, top2))

\* the loop that builds `contexts` from raw_contexts
RECURSIVE assemble(_, _)
assemble(raw_contexts, question) ==
  IF raw_contexts = <<>> THEN <<>>
  ELSE (IF row_usable(Head(raw_contexts))
        THEN <<row_context(Head(raw_contexts), question)>> ELSE <<>>)
       \o assemble(Tail(raw_contexts), question)

\* a mutant of the trimming test: the Context's own size is compared
trim_fits_alone(total, c) == approx_words(c.body) <= WORD_BUDGET

\* `if total_words + w > WORD_BUDGET: break`, negated
trim_fits(total, c) == total + approx_words(c.body) <= WORD_BUDGET

\* `if total_words > WORD_BUDGET` after the trimming loop
still_too_big(total) == total > WORD_BUDGET

\* a mutant of the summarizer's test: a body of exactly the target is summarized
short_enough_strict(c) == approx_words(c.body) < SUMMARY_TARGET

\* `if _approx_words(c.body) <= SUMMARY_TARGET` in summarize_long_context
short_enough(c) == approx_words(c.body) <= SUMMARY_TARGET

\* (resp.choices[0].message.content or "").strip()
content_of(text) == strip(OrEmpty(text))

\* the sections of the prompt, f"# {c.title}\n\n{c.body}"
sections(contexts) ==
  [i \in 1..Len(contexts) |->
     <<"#", " ">> \o contexts[i].title \o <<"\n", "\n">> \o contexts[i].body]

\* a mutant of the join: without sections a placeholder is written
joined_sections_placeholder(contexts) ==
  IF contexts = <<>> THEN <<"(", "n", "o", "n", "e", ")">>
  ELSE join(<<"\n", "\n", "-", "-", "-", "\n", "\n">>,
            [i \in 1..Len(contexts) |->
               <<"#", " ">> \o contexts[i].title \o <<"\n", "\n">>
                 \o contexts[i].body])

\* the text between "Context:\n" and "\n\nQuestion: " in the prompt
joined_sections(contexts) ==
  join(<<"\n", "\n", "-", "-", "-", "\n", "\n">>, sections(contexts))

\* the fixed instruction and section markers are one element each
build_prompt(question, contexts) ==
  <<"<system>", "\n", "\n", "Context:", "\n">> \o joined_sections(contexts)
    \o <<"\n", "\n", "Question: ">> \o question \o <<"\n", "Answer:">>

\* ------------------------------------------------------------ app.py helpers
\* SAFE_TEXT_RE = [^A-Za-z0-9_\-\s\.,:+#()/], on the characters used here
SafeChar(ch) == ch \in {"a", "b", "A", "B", " ", ".", "#"}

RECURSIVE RemoveUnsafe(_)
RemoveUnsafe(s) ==
  IF s = <<>> THEN <<>>
  ELSE (IF SafeChar(Head(s)) THEN <<Head(s)>> ELSE <<>>) \o RemoveUnsafe(Tail(s))

sanitize_text(val, max_len) ==
  IF val = None THEN <<>>
  ELSE LET v == strip(val)
           cut == IF Len(v) > max_len THEN SubSeq(v, 1, max_len) ELSE v
       IN RemoveUnsafe(cut)

\* AskRequest: the Field constraints and the context_ids validator
request_valid(r) ==
  /\ Len(r.question) >= QUESTION_MIN_LEN
  /\ Len(r.question) <= QUESTION_MAX_LEN
  /\ Len(r.context_ids) >= 1
  /\ Len(r.context_ids) <= MAX_CTX_IDS
  /\ \A i \in 1..Len(r.context_ids) : r.context_ids[i] > 0


\* ------------------------------------------------------------ inputs
\* the articles table: five rows with distinct publish dates
ArticlesTable ==
  { [id |-> 1, title |-> <<"A">>, publish_date |-> 5,
     content |-> <<"b", " ", "b", " ", "a", " ", "a", " ", "b">>],
    [id |-> 2, title |-> <<" ", "b", " ">>, publish_date |-> 1,
     content |-> <<" ", "b", " ", " ", "a", " ">>],
    [id |-> 3, title |-> None, publish_date |-> 3,
     content |-> <<"a">>],
    [id |-> 4, title |-> <<"b">>, publish_date |-> 2,
     content |-> <<" ", " ">>],
    [id |-> 5, title |-> <<"a">>, publish_date |-> 4,
     content |-> <<"A", " ", "b", " ", "a", " ", "B", " ", "a">>] }

\* the row of a result set as the handler sees it: id, title, content
Row(a) == [id |-> a.id, title |-> a.title, content |-> a.content]

\* context ids a request may carry: 0 is not positive, 6 names no article
IdPool == 0..6

\* strictly ascending id lists of at most MaxRows ids
IdLists ==
  {s \in SeqsUpTo(IdPool, MaxRows) : \A i \in 1..(Len(s) - 1) : s[i] < s[i + 1]}

\* "a B", "A a?", "bbb", "? a", "a?"
Questions ==
  { <<"a", " ", "B">>, <<"A", " ", "a", "?">>, <<"b", "b", "b">>,
    <<"?", " ", "a">>, <<"a", "?">> }

\* what a completion call may answer: None, " a ", "b a"
CompletionTexts == { None, <<" ", "a", " ">>, <<"b", " ", "a">> }

\* what a completion call may raise
CompletionErrors == { "ValueError", "APIError" }

\* Contexts handed directly to summarize_long_context: 1, 2 and 3 words
SummaryPool ==
  { Context(<<"A">>, <<"a">>), Context(<<"b">>, <<"b", " ", "a">>),
    Context(<<"a">>, <<"a", " ", ".", ".", ".", " ", "b">>) }

\* SELECT id, title, content FROM articles WHERE id = ANY(ids)
\* ORDER BY publish_date DESC
RECURSIVE OrderByDateDesc(_)
OrderByDateDesc(S) ==
  IF S = {} THEN <<>>
  ELSE LET top == CHOOSE a \in S : \A b \in S : b.publish_date <= a.publish_date
       IN <<Row(top)>> \o OrderByDateDesc(S \ {top})

query_ctx(ids) ==
  OrderByDateDesc({a \in ArticlesTable : \E i \in 1..Len(ids) : ids[i] = a.id})

\* ------------------------------------------------------------ state
VARIABLES
  API_KEY,            \* llm.API_KEY: <<>> when OPENAI_API_KEY is not set
  OpenAI,             \* llm.OpenAI: "None" when the package is missing
  entry,              \* the operation that was invoked
  pc,                 \* where the invoked operation stands
  req,                \* the AskRequest
  q,                  \* the question handed to llm.py
  rows,               \* raw_contexts
  contexts,           \* generate_answer: contexts
  trimmed,            \* generate_answer: trimmed
  total_words,        \* generate_answer: total_words
  idx,                \* generate_answer: position of the trimming loop
  sum_in,             \* summarize_long_context: contexts
  out,                \* summarize_long_context: out
  sidx,               \* summarize_long_context: position of its loop
  summarizer_called,  \* generate_answer called summarize_long_context
  prompt,             \* the prompt of the final completion call
  calls,              \* the external calls issued so far, in order
  result,             \* how the llm.py function ended
  response,           \* the HTTP response of /api/ask
  arg,                \* the input of the function under test
  ret                 \* the output of the function under test

cfgVars == <<API_KEY, OpenAI>>
askVars == <<req, response>>
gaVars == <<contexts, trimmed, total_words, idx, prompt>>
sumVars == <<sum_in, out, sidx>>
fnVars == <<arg, ret>>
vars == <<API_KEY, OpenAI, entry, pc, req, q, rows, contexts, trimmed,
          total_words, idx, sum_in, out, sidx, summarizer_called, prompt,
          calls, result, response, arg, ret>>

NoRequest == [question |-> <<>>, context_ids |-> <<>>]
NoResult == [kind |-> "none"]
NoResponse == [status |-> 0]

\* everything but the configuration, the position and the function harness
Blank ==
  /\ req = NoRequest /\ q = <<>> /\ rows = <<>>
  /\ contexts = <<>> /\ trimmed = <<>> /\ total_words = 0 /\ idx = 0
  /\ sum_in = <<>> /\ out = <<>> /\ sidx = 0
  /\ summarizer_called = FALSE /\ prompt = <<>>
  /\ calls = <<>> /\ result = NoResult /\ response = NoResponse

Config ==
  /\ API_KEY \in { <<>>, <<"k">> }
  /\ OpenAI \in { "None", "class" }

Init ==
  /\ Config /\ Blank
  /\ entry = "none" /\ pc = "idle"
  /\ arg = <<>> /\ ret = <<>>

\* ------------------------------------------------------------ llm.py
\* a mutant of _ensure_client: the credential is not looked at
ensure_client_raises_no_key_check == OpenAI = "None"

\* _ensure_client raises RuntimeError
ensure_client_raises == API_KEY = <<>> \/ OpenAI = "None"

Raise(exc) == [kind |-> "raise", exc |-> exc]
Return(v) == [kind |-> "return", value |-> v]

Call(kind, site, ok) == [kind |-> kind, site |-> site, ok |-> ok]

\* a completion call that answered `text`
Answered(site, text) ==
  [kind |-> "completion", site |-> site, ok |-> TRUE, text |-> text]

\* a mutant of the exit: the final completion call is issued again
ExitPc_retry ==
  IF pc = "final_call" /\ Len(calls) < 4 THEN "final_call"
  ELSE IF entry = "ask" THEN "ask_after" ELSE "done"

\* where control goes when the llm.py function called first ends
ExitPc == IF entry = "ask" THEN "ask_after" ELSE "done"

\* generate_answer(question, raw_contexts) called directly
Call_generate_answer(question, raw) ==
  /\ pc = "idle"
  /\ entry' = "generate_answer" /\ pc' = "ga_assemble"
  /\ q' = question /\ rows' = raw
  /\ UNCHANGED <<cfgVars, askVars, gaVars, sumVars, fnVars,
                 summarizer_called, calls, result>>

\* the assembling loop
GA_Assemble ==
  /\ pc = "ga_assemble"
  /\ contexts' = assemble(rows, q)
  /\ trimmed' = <<>> /\ total_words' = 0 /\ idx' = 1
  /\ pc' = "ga_trim"
  /\ UNCHANGED <<cfgVars, askVars, sumVars, fnVars, entry, q, rows, prompt,
                 summarizer_called, calls, result>>

\* one pass of the trimming loop that keeps the Context
GA_TrimStep ==
  /\ pc = "ga_trim"
  /\ idx <= Len(contexts)
  /\ trim_fits(total_words, contexts[idx])
  /\ trimmed' = Append(trimmed, contexts[idx])
  /\ total_words' = total_words + approx_words(contexts[idx].body)
  /\ idx' = idx + 1
  /\ UNCHANGED <<cfgVars, askVars, sumVars, fnVars, entry, pc, q, rows,
                 contexts, prompt, summarizer_called, calls, result>>

\* the loop ends (exhausted, or break) and `if total_words > WORD_BUDGET`
GA_TrimEnd ==
  /\ pc = "ga_trim"
  /\ IF idx > Len(contexts) THEN TRUE
     ELSE ~trim_fits(total_words, contexts[idx])
  /\ IF still_too_big(total_words)
     THEN /\ pc' = "sum_ensure" /\ sum_in' = trimmed
          /\ summarizer_called' = TRUE
     ELSE /\ pc' = "final_ensure"
          /\ UNCHANGED <<sum_in, summarizer_called>>
  /\ UNCHANGED <<cfgVars, askVars, gaVars, fnVars, entry, q, rows, out, sidx,
                 calls, result>>

\* summarize_long_context(question, contexts) called directly
Call_summarize_long_context(question, ctxs) ==
  /\ pc = "idle"
  /\ entry' = "summarize_long_context" /\ pc' = "sum_ensure"
  /\ q' = question /\ sum_in' = ctxs
  /\ UNCHANGED <<cfgVars, askVars, gaVars, fnVars, rows, out, sidx,
                 summarizer_called, calls, result>>

\* summarize_long_context: client = _ensure_client(); out = []
Sum_EnsureClient ==
  /\ pc = "sum_ensure"
  /\ IF ensure_client_raises
     THEN /\ result' = Raise("RuntimeError") /\ pc' = ExitPc
          /\ UNCHANGED <<out, sidx>>
     ELSE /\ out' = <<>> /\ sidx' = 1 /\ pc' = "sum_loop"
          /\ UNCHANGED result
  /\ UNCHANGED <<cfgVars, askVars, gaVars, fnVars, entry, q, rows, sum_in,
                 summarizer_called, calls>>

\* a Context within the target is passed on
Sum_Keep ==
  /\ pc = "sum_loop"
  /\ sidx <= Len(sum_in)
  /\ short_enough(sum_in[sidx])
  /\ out' = Append(out, sum_in[sidx])
  /\ sidx' = sidx + 1
  /\ UNCHANGED <<cfgVars, askVars, gaVars, fnVars, entry, pc, q, rows, sum_in,
                 summarizer_called, calls, result>>

\* the summarization call answers `text`
Sum_CallOk(text) ==
  /\ pc = "sum_loop"
  /\ sidx <= Len(sum_in)
  /\ ~short_enough(sum_in[sidx])
  /\ calls' = Append(calls, Answered("summary", text))
  /\ out' = Append(out, Context(sum_in[sidx].title, content_of(text)))
  /\ sidx' = sidx + 1
  /\ UNCHANGED <<cfgVars, askVars, gaVars, fnVars, entry, pc, q, rows, sum_in,
                 summarizer_called, result>>

\* the summarization call raises
Sum_CallFail(exc) ==
  /\ pc = "sum_loop"
  /\ sidx <= Len(sum_in)
  /\ ~short_enough(sum_in[sidx])
  /\ calls' = Append(calls, Call("completion", "summary", FALSE))
  /\ result' = Raise(exc) /\ pc' = ExitPc
  /\ UNCHANGED <<cfgVars, askVars, gaVars, sumVars, fnVars, entry, q, rows,
                 summarizer_called>>

\* return out
Sum_Return ==
  /\ pc = "sum_loop"
  /\ sidx > Len(sum_in)
  /\ IF entry = "summarize_long_context"
     THEN /\ result' = Return(out) /\ pc' = "done"
          /\ UNCHANGED trimmed
     ELSE /\ trimmed' = out /\ pc' = "final_ensure"
          /\ UNCHANGED result
  /\ UNCHANGED <<cfgVars, askVars, sumVars, fnVars, entry, q, rows, contexts,
                 total_words, idx, prompt, summarizer_called, calls>>

\* generate_answer: client = _ensure_client(); prompt = _build_prompt(...)
Final_EnsureClient ==
  /\ pc = "final_ensure"
  /\ IF ensure_client_raises
     THEN /\ result' = Raise("RuntimeError") /\ pc' = ExitPc
          /\ UNCHANGED prompt
     ELSE /\ prompt' = build_prompt(q, trimmed) /\ pc' = "final_call"
          /\ UNCHANGED result
  /\ UNCHANGED <<cfgVars, askVars, sumVars, fnVars, entry, q, rows, contexts,
                 trimmed, total_words, idx, summarizer_called, calls>>

\* the final completion call answers `text`
Final_CallOk(text) ==
  /\ pc = "final_call"
  /\ calls' = Append(calls, Answered("final", text))
  /\ result' = Return(content_of(text)) /\ pc' = ExitPc
  /\ UNCHANGED <<cfgVars, askVars, gaVars, sumVars, fnVars, entry, q, rows,
                 summarizer_called>>

\* the final completion call raises
Final_CallFail(exc) ==
  /\ pc = "final_call"
  /\ calls' = Append(calls, Call("completion", "final", FALSE))
  /\ result' = Raise(exc) /\ pc' = ExitPc
  /\ UNCHANGED <<cfgVars, askVars, gaVars, sumVars, fnVars, entry, q, rows,
                 summarizer_called>>


\* ------------------------------------------------------------ app.py
Http(status, detail) == [status |-> status, detail |-> detail]

\* POST /api/ask arrives: request validation, then sanitize_text
Ask(r) ==
  /\ pc = "idle"
  /\ entry' = "ask" /\ req' = r
  /\ IF ~request_valid(r)
     THEN /\ response' = Http(422, "validation error")
          /\ pc' = "done" /\ UNCHANGED q
     ELSE LET s == sanitize_text(r.question, QUESTION_MAX_LEN)
          IN IF s = <<>> \/ Len(s) < 3
             THEN /\ response' = Http(400, "question is too short or empty")
                  /\ pc' = "done" /\ UNCHANGED q
             ELSE /\ q' = s /\ pc' = "ask_fetch" /\ UNCHANGED response
  /\ UNCHANGED <<cfgVars, gaVars, sumVars, fnVars, rows, summarizer_called,
                 calls, result>>

\* rows = query(sql_ctx, (req.context_ids,)) returns; `if not rows`
Ask_FetchOk ==
  /\ pc = "ask_fetch"
  /\ calls' = Append(calls, Call("fetch", "context", TRUE))
  /\ rows' = query_ctx(req.context_ids)
  /\ IF rows' = <<>>
     THEN /\ response' = Http(400, "No articles found for given context_ids.")
          /\ pc' = "done"
     ELSE /\ pc' = "ga_assemble" /\ UNCHANGED response
  /\ UNCHANGED <<cfgVars, gaVars, sumVars, fnVars, entry, req, q,
                 summarizer_called, result>>

\* query raises
Ask_FetchFail ==
  /\ pc = "ask_fetch"
  /\ calls' = Append(calls, Call("fetch", "context", FALSE))
  /\ response' = Http(500, "Internal error while fetching context.")
  /\ pc' = "done"
  /\ UNCHANGED <<cfgVars, gaVars, sumVars, fnVars, entry, req, q, rows,
                 summarizer_called, result>>

\* a mutant of the handler's except clauses: every error is a 500
error_status_always_500(exc) == 500

\* except ValueError -> 400, except Exception -> 500
error_status(exc) == IF exc = "ValueError" THEN 400 ELSE 500

\* a mutant of the id list: only the rows that gave a Context are named
used_article_ids_usable(rws) ==
  LET keep == {i \in 1..Len(rws) : row_usable(rws[i])}
  IN [k \in 1..Cardinality(keep) |->
        rws[CHOOSE i \in keep : Cardinality({j \in keep : j < i}) = k - 1].id]

\* [r["id"] for r in rows]
used_article_ids(rws) == [i \in 1..Len(rws) |-> rws[i].id]

\* the try/except around generate_answer, and the return
Ask_After ==
  /\ pc = "ask_after"
  /\ response' =
       IF result.kind = "return"
       THEN [status |-> 200, answer |-> result.value,
             used_article_ids |-> used_article_ids(rows)]
       ELSE IF error_status(result.exc) = 400
       THEN Http(400, result.exc)
       ELSE Http(500, "Failed to generate answer.")
  /\ pc' = "done"
  /\ UNCHANGED <<cfgVars, gaVars, sumVars, fnVars, entry, req, q, rows,
                 summarizer_called, calls, result>>

\* ------------------------------------------------------------ the program
Requests == [question : Questions, context_ids : IdLists]

RowLists == SeqsUpTo({Row(a) : a \in ArticlesTable}, MaxRows)

Next ==
  \/ \E r \in Requests : Ask(r)
  \/ Ask_FetchOk
  \/ Ask_FetchFail
  \/ Ask_After
  \/ \E question \in Questions, raw \in RowLists :
       Call_generate_answer(question, raw)
  \/ GA_Assemble
  \/ GA_TrimStep
  \/ GA_TrimEnd
  \/ \E question \in Questions, ctxs \in SeqsUpTo(SummaryPool, MaxRows) :
       Call_summarize_long_context(question, ctxs)
  \/ Sum_EnsureClient
  \/ Sum_Keep
  \/ \E text \in CompletionTexts : Sum_CallOk(text)
  \/ \E exc \in CompletionErrors : Sum_CallFail(exc)
  \/ Sum_Return
  \/ Final_EnsureClient
  \/ \E text \in CompletionTexts : Final_CallOk(text)
  \/ \E exc \in CompletionErrors : Final_CallFail(exc)

Spec == Init /\ [][Next]_vars


\* ------------------------------------------------------------ the trimmer alone
\* a text of n words
Words(n) == join(<<" ">>, [i \in 1..n |-> <<"a">>])

\* Contexts of 1 word, 3 words and one word more than the budget
TrimPool == {Context(<<"A">>, Words(n)) : n \in {1, 3, WORD_BUDGET + 1}}

\* generate_answer stands before its trimming loop with any Context list
TrimInit ==
  /\ Config
  /\ req = NoRequest /\ q = <<"a", " ", "B">> /\ rows = <<>>
  /\ contexts \in SeqsUpTo(TrimPool, MaxRows)
  /\ trimmed = <<>> /\ total_words = 0 /\ idx = 1
  /\ sum_in = <<>> /\ out = <<>> /\ sidx = 0
  /\ summarizer_called = FALSE /\ prompt = <<>>
  /\ calls = <<>> /\ result = NoResult /\ response = NoResponse
  /\ entry = "generate_answer" /\ pc = "ga_trim"
  /\ arg = <<>> /\ ret = <<>>

\* the summarizer's steps are left out: no state of TrimSpec enables them
TrimNext ==
  \/ GA_TrimStep
  \/ GA_TrimEnd
  \/ Final_EnsureClient
  \/ \E text \in CompletionTexts : Final_CallOk(text)
  \/ \E exc \in CompletionErrors : Final_CallFail(exc)

TrimSpec == TrimInit /\ [][TrimNext]_vars

\* the program, and generate_answer before its trimming loop with any
\* Context list
AnswerSpec == (Init \/ TrimInit) /\ [][Next]_vars

\* ------------------------------------------------------------ _chunk alone
Chars == {"a", "b", " "}

ChunkInit ==
  /\ API_KEY = <<"k">> /\ OpenAI = "class" /\ Blank
  /\ entry = "chunk" /\ pc = "fn_call"
  /\ arg \in [text : SeqsUpTo(Chars, MaxText), max_words : 1..MaxChunkArg]
  /\ ret = <<>>

\* ret = _chunk(text, max_words)
Apply_chunk ==
  /\ pc = "fn_call" /\ entry = "chunk"
  /\ ret' = chunk(arg.text, arg.max_words)
  /\ pc' = "fn_done"
  /\ UNCHANGED <<cfgVars, askVars, gaVars, sumVars, entry, q, rows,
                 summarizer_called, calls, result, arg>>

ChunkSpec == ChunkInit /\ [][Apply_chunk]_vars

\* ------------------------------------------------------------ _rank_chunks alone
\* "a", "A b", "b b", "a A", "bbb"
ChunkPool ==
  { <<"a">>, <<"A", " ", "b">>, <<"b", " ", "b">>, <<"a", " ", "A">>,
    <<"b", "b", "b">> }

\* "a B", " A  a", "ab"
RankQuestions ==
  { <<"a", " ", "B">>, <<" ", "A", " ", " ", "a">>, <<"a", "b">> }

RankInit ==
  /\ API_KEY = <<"k">> /\ OpenAI = "class" /\ Blank
  /\ entry = "rank_chunks" /\ pc = "fn_call"
  /\ arg \in [chunks : SeqsUpTo(ChunkPool, MaxChunks), q : RankQuestions]
  /\ ret = <<>>

\* ret = _rank_chunks(chunks, q)
Apply_rank_chunks ==
  /\ pc = "fn_call" /\ entry = "rank_chunks"
  /\ ret' = rank_chunks(arg.chunks, arg.q)
  /\ pc' = "fn_done"
  /\ UNCHANGED <<cfgVars, askVars, gaVars, sumVars, entry, q, rows,
                 summarizer_called, calls, result, arg>>

RankSpec == RankInit /\ [][Apply_rank_chunks]_vars

\* ------------------------------------------------------------ claims
RECURSIVE WordsIn(_)
WordsIn(cs) ==
  IF cs = <<>> THEN 0 ELSE approx_words(Head(cs).body) + WordsIn(Tail(cs))

\* generate_answer is past its trimming loop and the summarize test
Trimmed == pc \in {"final_ensure", "final_call"}

\* generate_answer has been called
GACalled == entry = "generate_answer" \/ (entry = "ask" /\ rows # <<>>)

\* the operation invoked first has ended
Ended == pc = "done"

CompletionCalls == {i \in 1..Len(calls) : calls[i].kind = "completion"}
FetchCalls == {i \in 1..Len(calls) : calls[i].kind = "fetch"}
FailedCalls == {i \in 1..Len(calls) : ~calls[i].ok}

\* C1: after the trimming loop, trimmed is a prefix of contexts whose word
\* total is at most WORD_BUDGET, total_words is that total, and when a
\* Context is left over the first one left over would push the total over
\* WORD_BUDGET (nothing after it is looked at).
C1_TrimStopsAtFirstOverflow ==
  Trimmed =>
    LET n == Len(trimmed)
    IN /\ n <= Len(contexts)
       /\ trimmed = SubSeq(contexts, 1, n)
       /\ total_words = WordsIn(trimmed)
       /\ WordsIn(trimmed) <= WORD_BUDGET
       /\ n < Len(contexts) =>
            WordsIn(trimmed) + approx_words(contexts[n + 1].body) > WORD_BUDGET

\* a Context that fits the rest of the budget is dropped after an overflow
C1_Witness ==
  /\ Trimmed /\ entry = "ask"
  /\ Len(trimmed) >= 1
  /\ \E j \in (Len(trimmed) + 2)..Len(contexts) :
       WordsIn(trimmed) + approx_words(contexts[j].body) <= WORD_BUDGET

C3_NoKeyFailsFast ==
  (API_KEY = <<>> /\ GACalled) =>
    /\ CompletionCalls = {}
    /\ result.kind # "return"
    /\ prompt = <<>>
    /\ pc \in {"ask_after", "done"} => result = Raise("RuntimeError")

C3_Witness ==
  /\ API_KEY = <<>> /\ OpenAI = "class"
  /\ entry = "generate_answer" /\ Ended
  /\ contexts # <<>>
  /\ result = Raise("RuntimeError")

\* C4 as claimed: with API_KEY absent an /api/ask request issues no external
\* call at all, neither the context fetch nor a completion call.
C4_NoKeyNoExternalCall ==
  (API_KEY = <<>> /\ entry = "ask") => calls = <<>>

\* C4 amended: with API_KEY absent an /api/ask request issues no completion
\* call and gives no answer; the context fetch is issued first, and when it
\* has returned rows the request ends in a 500 with that fetch as the only
\* external call.
C4_NoKeyNoCompletionCall ==
  (API_KEY = <<>> /\ entry = "ask") =>
    /\ CompletionCalls = {}
    /\ Ended => response.status \in {400, 422, 500}
    /\ (Ended /\ rows # <<>>) =>
         /\ response = Http(500, "Failed to generate answer.")
         /\ calls = <<Call("fetch", "context", TRUE)>>

C4_Witness ==
  /\ API_KEY = <<>> /\ OpenAI = "class"
  /\ entry = "ask" /\ Ended
  /\ calls = <<Call("fetch", "context", TRUE)>>
  /\ response.status = 500


\* the least n with n * c >= l
Ceil(l, c) == CHOOSE n \in 0..l : n * c >= l /\ (n = 0 \/ (n - 1) * c < l)

RECURSIVE Flatten(_)
Flatten(ss) == IF ss = <<>> THEN <<>> ELSE Head(ss) \o Flatten(Tail(ss))

\* C5: _chunk gives ceil(L/C) chunks, every chunk but the last has exactly
\* C words and the last between 1 and C, and the words of the chunks, read
\* in order, are the words of the text; a text without words gives no chunk.
C5_ChunkCoversWords ==
  (pc = "fn_done" /\ entry = "chunk") =>
    LET words == split(arg.text)
        L == Len(words)
        C == arg.max_words
    IN /\ Len(ret) = Ceil(L, C)
       /\ \A k \in 1..Len(ret) :
            /\ Len(split(ret[k])) >= 1
            /\ Len(split(ret[k])) <= C
            /\ k < Len(ret) => Len(split(ret[k])) = C
       /\ Flatten([k \in 1..Len(ret) |-> split(ret[k])]) = words
       /\ L = 0 => ret = <<>>

\* several chunks, the last one short, from a text that is not its words
\* joined by single spaces
C5_Witness ==
  /\ pc = "fn_done" /\ entry = "chunk"
  /\ Len(ret) >= 2
  /\ Len(split(ret[Len(ret)])) < arg.max_words
  /\ arg.text # join(<<" ">>, split(arg.text))

\* the score as the claim words it: split first, lower each word
ClaimScore(c, question) ==
  LET ws == split(c)
      qs == split(question)
  IN Cardinality({i \in 1..Len(ws) :
                    lower(ws[i]) \in {lower(qs[j]) : j \in 1..Len(qs)}})

Bijections(n) ==
  {p \in [1..n -> 1..n] : \A i, j \in 1..n : i # j => p[i] # p[j]}

\* C6: _rank_chunks returns the chunks permuted so that scores do not
\* increase and chunks of equal score keep their input order; when every
\* score is 0 the output is the input.
C6_RankIsStableSort ==
  (pc = "fn_done" /\ entry = "rank_chunks") =>
    LET n == Len(arg.chunks)
        sc(c) == ClaimScore(c, arg.q)
    IN /\ Len(ret) = n
       /\ \E p \in Bijections(n) :
            /\ \A i \in 1..n : ret[i] = arg.chunks[p[i]]
            /\ \A i, j \in 1..n :
                 i < j => \/ sc(ret[i]) > sc(ret[j])
                          \/ sc(ret[i]) = sc(ret[j]) /\ p[i] < p[j]
       /\ (\A i \in 1..n : sc(arg.chunks[i]) = 0) => ret = arg.chunks

\* the order changed, and two different chunks of equal score were kept in
\* their input order
C6_Witness ==
  /\ pc = "fn_done" /\ entry = "rank_chunks"
  /\ ret # arg.chunks
  /\ \E i, j \in 1..Len(ret) :
       /\ i < j /\ ret[i] # ret[j]
       /\ ClaimScore(ret[i], arg.q) = ClaimScore(ret[j], arg.q)
       /\ ClaimScore(ret[i], arg.q) > 0

\* the rows of raw_contexts whose stripped title and content are not empty
UsableRows ==
  {i \in 1..Len(rows) :
     strip(OrEmpty(rows[i].title)) # <<>> /\ strip(OrEmpty(rows[i].content)) # <<>>}

\* the k-th smallest member of a set of numbers
RECURSIVE Kth(_, _)
Kth(S, k) == IF k = 1 THEN Min(S) ELSE Kth(S \ {Min(S)}, k - 1)

\* generate_answer is past its assembling loop
Assembled == GACalled /\ pc \in {"ga_trim", "final_ensure", "final_call"}

\* C7: contexts holds one Context per usable row, in row order, with the
\* row's stripped title and, as body, the first two ranked chunks of the
\* stripped content (or the only one) joined by " ... ".
C7_OneContextPerUsableRow ==
  Assembled =>
    /\ Len(contexts) = Cardinality(UsableRows)
    /\ \A k \in 1..Len(contexts) :
         LET row == rows[Kth(UsableRows, k)]
             ranked == rank_chunks(chunk(strip(row.content), CHUNK_WORDS), q)
         IN /\ contexts[k].title = strip(row.title)
            /\ contexts[k].body =
                 IF Len(ranked) = 1 THEN ranked[1]
                 ELSE ranked[1] \o Ellipsis \o ranked[2]

\* a row was skipped, a row after it was kept, and a body has two chunks
\* of which the first is not the first chunk of the content
C7_Witness ==
  /\ Assembled /\ entry = "ask"
  /\ \E i, j \in 1..Len(rows) : i < j /\ i \notin UsableRows /\ j \in UsableRows
  /\ \E k \in 1..Len(contexts) :
       LET cs == chunk(strip(rows[Kth(UsableRows, k)].content), CHUNK_WORDS)
       IN /\ Len(cs) >= 3
          /\ contexts[k].body # cs[1] \o Ellipsis \o cs[2]


\* summarize_long_context, called directly, has returned
SumReturned ==
  entry = "summarize_long_context" /\ Ended /\ result.kind = "return"

SummaryCalls == {i \in 1..Len(calls) : calls[i].site = "summary"}

\* C8 as claimed: every body of the list summarize_long_context returns has
\* at most SUMMARY_TARGET words, whatever the completion calls answered.
C8_SummariesWithinTarget ==
  SumReturned =>
    \A i \in 1..Len(result.value) :
      approx_words(result.value[i].body) <= SUMMARY_TARGET

\* C8 amended: summarize_long_context returns one Context per input
\* Context, in order and with the same title; a Context of at most
\* SUMMARY_TARGET words is returned unchanged, any other has as body the
\* stripped text one completion call answered, of whatever length; one
\* completion call was issued per Context over the target.
C8_SummariesReplaceLongBodies ==
  SumReturned =>
    LET res == result.value
        long == {i \in 1..Len(sum_in) : approx_words(sum_in[i].body) > SUMMARY_TARGET}
    IN /\ Len(res) = Len(sum_in)
       /\ \A i \in 1..Len(res) :
            /\ res[i].title = sum_in[i].title
            /\ i \notin long => res[i] = sum_in[i]
            /\ i \in long =>
                 res[i].body \in {strip(OrEmpty(t)) : t \in CompletionTexts}
       /\ Cardinality(SummaryCalls) = Cardinality(long)
       /\ FailedCalls = {}

\* a short Context passed on unchanged beside a long one whose summary is
\* itself over the target
C8_Witness ==
  /\ SumReturned
  /\ \E i, j \in 1..Len(sum_in) :
       /\ approx_words(sum_in[i].body) = SUMMARY_TARGET
       /\ result.value[i] = sum_in[i]
       /\ approx_words(sum_in[j].body) > SUMMARY_TARGET
       /\ approx_words(result.value[j].body) > SUMMARY_TARGET

\* C9: an /api/ask request issues at most one context fetch and at most
\* two completion calls, no call follows a failed call, and after a failed
\* call the handler only reports the failure.
C9_CallsBoundedNoRetry ==
  entry = "ask" =>
    /\ Cardinality(FetchCalls) <= 1
    /\ Cardinality(CompletionCalls) <= 2
    /\ \A i \in FetchCalls : i = 1
    /\ \A i \in 1..(Len(calls) - 1) : calls[i].ok
    /\ FailedCalls # {} =>
         /\ pc \in {"ask_after", "done"}
         /\ Ended => response.status \in {400, 500}

\* a request that ended after its completion call failed
C9_Witness ==
  /\ entry = "ask" /\ Ended
  /\ calls = <<Call("fetch", "context", TRUE), Call("completion", "final", FALSE)>>
  /\ response.status = 500

\* the error the last external call raised, when it failed
FailedFetch == \E i \in FailedCalls : calls[i].kind = "fetch"
FailedCompletion == \E i \in FailedCalls : calls[i].kind = "completion"

\* C10 as claimed: an /api/ask request whose context fetch or completion
\* call raised ends in a 500 without answer, and after a failed context
\* fetch generate_answer is not called.
C10_CollaboratorFailureIs500 ==
  (entry = "ask" /\ Ended /\ FailedCalls # {}) =>
    /\ response.status = 500
    /\ DOMAIN response = {"status", "detail"}
    /\ FailedFetch => (contexts = <<>> /\ result = NoResult /\ Len(calls) = 1)

\* C10 amended: an /api/ask request whose context fetch or completion call
\* raised ends in a failure response without answer or context: a 500 with
\* a fixed message, except that a ValueError raised by a completion call
\* gives a 400 carrying the error; after a failed context fetch
\* generate_answer is not called.
C10_CollaboratorFailureIsError ==
  (entry = "ask" /\ Ended /\ FailedCalls # {}) =>
    /\ DOMAIN response = {"status", "detail"}
    /\ FailedFetch =>
         /\ response = Http(500, "Internal error while fetching context.")
         /\ contexts = <<>> /\ result = NoResult /\ Len(calls) = 1
    /\ FailedCompletion =>
         /\ result.kind = "raise"
         /\ result.exc # "ValueError" =>
              response = Http(500, "Failed to generate answer.")
         /\ result.exc = "ValueError" => response = Http(400, "ValueError")

\* a request that ended in a 400 after its completion call raised ValueError
C10_Witness ==
  /\ entry = "ask" /\ Ended
  /\ FailedCompletion
  /\ result = Raise("ValueError")
  /\ response.status = 400


\* no Context can survive: none was assembled, or the first one alone is
\* over the budget
NoSurvivor ==
  contexts = <<>> \/ approx_words(contexts[1].body) > WORD_BUDGET

\* the prompt with nothing between "Context:\n" and "\n\nQuestion: "
EmptyContextPrompt ==
  <<"<system>", "\n", "\n", "Context:", "\n", "\n", "\n", "Question: ">>
    \o q \o <<"\n", "Answer:">>

\* C11: with the credential and the client library present, when no Context
\* survives assembly and trimming, generate_answer keeps nothing, raises
\* nothing of its own, builds the prompt with an empty Context section and
\* issues exactly one completion call, the final one; it returns the
\* stripped text of that call, and raises only what that call raised.
C11_EmptyContextStillAnswers ==
  (/\ API_KEY # <<>> /\ OpenAI = "class"
   /\ GACalled
   /\ pc \in {"final_ensure", "final_call", "ask_after", "done"}
   /\ NoSurvivor) =>
    /\ trimmed = <<>> /\ total_words = 0 /\ ~summarizer_called
    /\ pc = "final_ensure" => (result = NoResult /\ CompletionCalls = {})
    /\ pc = "final_call" =>
         /\ prompt = EmptyContextPrompt
         /\ result = NoResult /\ CompletionCalls = {}
    /\ pc \in {"ask_after", "done"} =>
         /\ prompt = EmptyContextPrompt
         /\ Cardinality(CompletionCalls) = 1
         /\ LET c == calls[Len(calls)]
            IN /\ c.kind = "completion" /\ c.site = "final"
               /\ c.ok => result = Return(strip(OrEmpty(c.text)))
               /\ ~c.ok => (result.kind = "raise" /\ result.exc \in CompletionErrors)

\* an /api/ask request whose rows were all skipped ended with an answer
C11_Witness ==
  /\ API_KEY # <<>> /\ OpenAI = "class"
  /\ entry = "ask" /\ Ended
  /\ rows # <<>> /\ contexts = <<>>
  /\ response.status = 200
  /\ response.answer = <<"b", " ", "a">>


\* the articles the request's context_ids name
Named ==
  {a \in ArticlesTable : \E i \in 1..Len(req.context_ids) : req.context_ids[i] = a.id}

PublishDate(id) == (CHOOSE a \in ArticlesTable : a.id = id).publish_date

\* C12: the used_article_ids of a 200 response are the ids of all articles
\* the context_ids name, each once, newest publish date first, whether or
\* not the article gave a Context and whether or not the trimmer kept it.
C12_UsedIdsAreFetchedIds ==
  (entry = "ask" /\ Ended /\ response.status = 200) =>
    LET u == response.used_article_ids
    IN /\ Len(u) = Cardinality(Named)
       /\ {u[i] : i \in 1..Len(u)} = {a.id : a \in Named}
       /\ \A i, j \in 1..Len(u) : i < j => PublishDate(u[i]) > PublishDate(u[j])
       /\ u = [i \in 1..Len(rows) |-> rows[i].id]

\* a 200 response naming a skipped article and an article the trimmer dropped
C12_Witness ==
  /\ entry = "ask" /\ Ended /\ response.status = 200
  /\ Len(contexts) < Len(rows)
  /\ 1 <= Len(trimmed) /\ Len(trimmed) < Len(contexts)
  /\ Len(response.used_article_ids) = Len(rows)

====
